---- MODULE Spec2Model ----
(***************************************************************************)
(* Model of the KEMD dataset pipeline of src/Kaggle/erc/datasets.py:       *)
(* padding of waveforms (pad_value / get_wav), hard-vote label resolution  *)
(* (get_hard_vote / _find_deuce_label), session-fold partitioning          *)
(* (split_folds), the normalized-table cache (processed_db / __init__)     *)
(* and the processed-dataset cache of HF_KEMD.                             *)
(*                                                                         *)
(* Each family of operations has its own specification (SpecPad, SpecVote, *)
(* SpecFold, SpecDb, SpecHF).  The variables of the other families keep    *)
(* their idle values in a specification that does not use them.            *)
(***************************************************************************)
EXTENDS Integers, Sequences, FiniteSets, TLC

VARIABLES
    padPc,        \* "call" -> "done": position of the pad_value / get_wav call
    padOp,        \* which entry point is called: "pad_value" or "get_wav"
    padArr,       \* the 1-D input samples
    padMax,       \* max_length (pad_value) or self.max_length_wav (get_wav)
    padOut,       \* the returned array
    padMask,      \* the returned mask (NoneVal when get_wav returns no mask)
    votePc,       \* "call" -> "done": position of the get_hard_vote call
    voteCorpus,   \* self.NAME.lower() of the accessor
    voteCounts,   \* the row's per-category vote counts (row[self.emo_col])
    voteVA,       \* <<valence, arousal>> of the row
    voteOut,      \* the returned category index
    foldPc,       \* "call" -> "done": position of the split_folds call
    foldCorpus,   \* corpus of the accessor
    foldSessions, \* the session number each row of the table was recorded in
    foldDf,       \* total_df: the sequence of rows (each row its segment_id)
    foldNum,      \* fold_num
    foldMode,     \* mode
    foldOut,      \* the returned table
    foldOp,       \* which function is called: "split_folds" or "get_folds"
    gfArgs,       \* <<num_session, num_folds>> of the get_folds call
    gfOut,        \* the mapping fold id -> session range get_folds returned
    dbPc,         \* "call" -> "done": position of the KEMDBase construction
    dbArgs,       \* the constructor's arguments
    dbCorpus,     \* the accessor class: "kemdy19" or "kemdy20"
    dbRaw,        \* the raw annotation tables under base_path
    dbCache0,     \* the cache file as it was when the construction began
    cache,        \* the cache file at TOTAL_DF_PATH
    dbMerges,     \* calls of merge_csv made by the construction
    dbWrites,     \* writes of the cache file made by the construction
    dbTable,      \* total_df as processed_db hands it to split_folds
    dbResult,     \* outcome of the construction: the accessor or the error
    dbLen,        \* outcome of len(accessor) on the constructed accessor
    labelPc,      \* "call" -> "done": position of the get_emo call
    labelKey,     \* the row's emotion string, as the list of its ";"-joined words
    labelOut,     \* the returned label index
    itemPc,       \* "call" -> "done": position of the __getitem__ call
    itemIn,       \* the accessor's settings, the row and the files it finds
    itemOut,      \* the returned object (its keys) or the error raised
    ahPc,         \* position of the process that builds the AIHubDialog accessors
    ahIn,         \* total_len and the random draws made between the constructions
    ahRng,        \* state of the process-wide random generator
    ahOut,        \* index_list of the train-mode and of the valid-mode accessor
    ctPc,         \* "call" -> "done": position of the accessor construction
    ctIn,         \* the accessor class, fold id and mode given, and the disk
    ctOut,        \* outcome of the construction and what it read or wrote
    hfDisk,       \* the processed datasets saved on disk, one per ds_name
    hfLast        \* the last HF_KEMD construction: configuration and outcome

padVars  == <<padPc, padOp, padArr, padMax, padOut, padMask>>
voteVars == <<votePc, voteCorpus, voteCounts, voteVA, voteOut>>
foldVars == <<foldPc, foldCorpus, foldSessions, foldDf, foldNum, foldMode, foldOut,
              foldOp, gfArgs, gfOut>>
dbVars   == <<dbPc, dbArgs, dbCorpus, dbRaw, dbCache0, cache, dbMerges, dbWrites, dbTable,
              dbResult, dbLen>>
hfVars   == <<hfDisk, hfLast>>
labelVars == <<labelPc, labelKey, labelOut>>
itemVars == <<itemPc, itemIn, itemOut>>
ahVars   == <<ahPc, ahIn, ahRng, ahOut>>
ctVars   == <<ctPc, ctIn, ctOut>>
extVars  == <<itemVars, ahVars, ctVars>>
vars     == <<padVars, voteVars, foldVars, dbVars, hfVars, labelVars, extVars>>

\* Python's None
NoneVal == "None"

(***************************************************************************)
(* Bounds of the model                                                     *)
(***************************************************************************)
MaxLen == 4        \* longest input waveform
MaxPad == 5        \* largest max_length
MaxSample == 2     \* sample values are 0..MaxSample
MaxVotes == 3      \* most annotator votes on one row
MaxCoord == 5      \* valence and arousal of a row lie in 1..MaxCoord
MaxRows == 2       \* most rows of a normalized table given to split_folds
MaxSessionsArg == 12  \* largest num_session given to get_folds on its own
MaxFoldsArg == 6   \* largest num_folds given to get_folds on its own
MaxDbRows == 2     \* most rows of the corpus an accessor is constructed on
MaxAihub == 4      \* most files of the auxiliary corpus
MaxDraws == 2      \* most other draws from the random generator between two samplings
CtAihubLen == 2    \* files of the auxiliary corpus when HF_KEMD is constructed

(***************************************************************************)
(* Idle values of each family of variables                                 *)
(***************************************************************************)
PadIdle ==
    /\ padPc = "idle" /\ padOp = NoneVal /\ padArr = <<>> /\ padMax = 0
    /\ padOut = <<>> /\ padMask = <<>>

VoteIdle ==
    /\ votePc = "idle" /\ voteCorpus = NoneVal /\ voteCounts = <<>>
    /\ voteVA = <<0, 0>> /\ voteOut = -1

FoldIdle ==
    /\ foldPc = "idle" /\ foldCorpus = NoneVal /\ foldSessions = <<>>
    /\ foldDf = <<>> /\ foldNum = -1 /\ foldMode = NoneVal /\ foldOut = <<>>
    /\ foldOp = NoneVal /\ gfArgs = <<0, 0>> /\ gfOut = <<>>

DbIdle ==
    /\ dbPc = "idle" /\ dbArgs = NoneVal /\ cache = NoneVal /\ dbMerges = 0
    /\ dbCorpus = NoneVal /\ dbRaw = NoneVal /\ dbCache0 = NoneVal
    /\ dbWrites = 0 /\ dbTable = NoneVal /\ dbResult = NoneVal /\ dbLen = NoneVal

HfIdle ==
    /\ hfDisk = {} /\ hfLast = NoneVal

LabelIdle ==
    /\ labelPc = "idle" /\ labelKey = <<>> /\ labelOut = -1

ItemIdle == itemPc = "idle" /\ itemIn = NoneVal /\ itemOut = NoneVal

AhIdle == ahPc = "idle" /\ ahIn = NoneVal /\ ahRng = NoneVal /\ ahOut = NoneVal

CtIdle == ctPc = "idle" /\ ctIn = NoneVal /\ ctOut = NoneVal

ExtIdle == ItemIdle /\ AhIdle /\ CtIdle

(***************************************************************************)
(* pad_value and get_wav                                                   *)
(***************************************************************************)
\* arr[:n] of a 1-D array
Prefix(arr, n) == [i \in 1..(IF n < Len(arr) THEN n ELSE Len(arr)) |-> arr[i]]

\* torch.nn.functional.pad(arr, pad=(0, null_size), value=pad_value)
PadRight(arr, null_size, value) ==
    [i \in 1..(Len(arr) + null_size) |-> IF i <= Len(arr) THEN arr[i] ELSE value]

\* torch.ones(max_length).long()
Ones(max_length) == [i \in 1..max_length |-> 1]

\* mask[start:] = 0 (start is a 0-based position, start >= 0)
ZeroFrom(mask, start) == [i \in 1..Len(mask) |-> IF i - 1 >= start THEN 0 ELSE mask[i]]

\* pad_value without the truncation of a waveform longer than max_length
pad_value_NoTruncate(arr, max_length) ==
    IF Len(arr) >= max_length
    THEN <<arr, Ones(max_length)>>
    ELSE LET null_size == max_length - Len(arr)
         IN  <<PadRight(arr, null_size, 0), ZeroFrom(Ones(max_length), null_size)>>

\* KEMDBase.pad_value(arr, max_length, pad_value=0): <<arr, mask>>
pad_value(arr, max_length) ==
    IF Len(arr) >= max_length
    THEN <<Prefix(arr, max_length), Ones(max_length)>>
    ELSE LET null_size == max_length - Len(arr)
         IN  <<PadRight(arr, null_size, 0), ZeroFrom(Ones(max_length), null_size)>>

\* KEMDBase.get_wav after torchaudio.load: <<data, mask>>; a falsy
\* max_length_wav (0 or None, modelled as 0) returns the waveform as it is
get_wav(data, max_length_wav) ==
    IF max_length_wav # 0
    THEN pad_value(data, max_length_wav)
    ELSE <<data, NoneVal>>

Samples == 0..MaxSample
Waveforms == UNION {[1..n -> Samples] : n \in 0..MaxLen}

InitPad ==
    /\ padPc = "call"
    /\ padOp \in {"pad_value", "get_wav"}
    /\ padArr \in Waveforms
    /\ padMax \in 0..MaxPad
    /\ padOut = <<>> /\ padMask = <<>>
    /\ VoteIdle /\ FoldIdle /\ DbIdle /\ HfIdle /\ LabelIdle /\ ExtIdle

CallPadValue ==
    /\ padPc = "call" /\ padOp = "pad_value"
    /\ padOut' = pad_value(padArr, padMax)[1]
    /\ padMask' = pad_value(padArr, padMax)[2]
    /\ padPc' = "done"
    /\ UNCHANGED <<padOp, padArr, padMax, voteVars, foldVars, dbVars, hfVars, labelVars, extVars>>

CallGetWav ==
    /\ padPc = "call" /\ padOp = "get_wav"
    /\ padOut' = get_wav(padArr, padMax)[1]
    /\ padMask' = get_wav(padArr, padMax)[2]
    /\ padPc' = "done"
    /\ UNCHANGED <<padOp, padArr, padMax, voteVars, foldVars, dbVars, hfVars, labelVars, extVars>>

NextPad == CallPadValue \/ CallGetWav

SpecPad == InitPad /\ [][NextPad]_vars

\* pad_value has returned (directly, or through get_wav with a maximum length)
PadReturned == padPc = "done" /\ (padOp = "pad_value" \/ padMax # 0)

\* C2: the presence mask has length max_length, with a 1 at exactly the
\* positions of the original samples and a 0 at exactly the padded tail:
\* ones on 0..n-1 and zeros on n..max_length-1 when n < max_length, all ones
\* when n >= max_length.
C2_MaskMarksOriginalSamples ==
    PadReturned =>
        /\ Len(padMask) = padMax
        /\ \A i \in 1..padMax : padMask[i] = (IF i <= Len(padArr) THEN 1 ELSE 0)

\* C3: the returned array has length exactly max_length: the first
\* max_length samples when n >= max_length, the n samples followed by
\* max_length - n zeros when n < max_length.
C3_PaddedArrayLength ==
    PadReturned =>
        /\ Len(padOut) = padMax
        /\ \A i \in 1..padMax : padOut[i] = (IF i <= Len(padArr) THEN padArr[i] ELSE 0)

\* C3 witnesses: a truncated waveform and a padded one have been returned
C3_Witness ==
    /\ PadReturned
    /\ Len(padArr) = 1 /\ padArr[1] # 0 /\ padMax = 3
    /\ padOut = <<padArr[1], 0, 0>>

(***************************************************************************)
(* get_hard_vote and _find_deuce_label                                     *)
(***************************************************************************)
\* number of columns of emo_col (lines 84-86): the keys of emotion2idx
\* without the misspelt alias "disqust".  datasets.py imports emotion2idx
\* from the erc.constants of its own package, which also defines the
\* centroid dictionaries; with that module the list has the 7 categories.
NumEmotions == 7
Categories == 0..(NumEmotions - 1)

\* emotion_va_19_dict / emotion_va_20_dict: f'{index}_centroid' -> (valence,
\* arousal).  The module that defines them is not part of the sources; the
\* coordinates below are fixed, differ by corpus, and lie on the integer grid
\* the rows' points are drawn from.
emotion_va_19_dict ==
    [index \in Categories |->
        <<<<3, 5>>, <<2, 4>>, <<1, 4>>, <<3, 3>>, <<5, 4>>, <<2, 2>>, <<1, 3>>>>[index + 1]]

emotion_va_20_dict ==
    [index \in Categories |->
        <<<<4, 5>>, <<1, 5>>, <<2, 4>>, <<3, 3>>, <<4, 4>>, <<2, 1>>, <<1, 2>>>>[index + 1]]

\* the dictionary {"kemdy19": ..., "kemdy20": ...}[self.NAME.lower()]
eva_dict(corpus) ==
    IF corpus = "kemdy19" THEN emotion_va_19_dict ELSE emotion_va_20_dict

RECURSIVE SumTo(_, _)
SumTo(f, n) == IF n < 0 THEN 0 ELSE f[n] + SumTo(f, n - 1)

\* ev.sum()
VecSum(ev) == SumTo(ev, NumEmotions - 1)

\* KEMDBase.vectorize: ev / ev.sum(); a share is the fraction <<votes, total>>
vectorize(ev) == [i \in Categories |-> <<ev[i], VecSum(ev)>>]

\* comparison of two shares (fractions with positive denominators)
ShareLeq(x, y) == x[1] * y[2] <= y[1] * x[2]
ShareEq(x, y) == x[1] * y[2] = y[1] * x[2]

\* e.max()
VecMax(e) == e[CHOOSE i \in Categories : \A j \in Categories : ShareLeq(e[j], e[i])]

\* e.argmax(): the first index holding the maximum
VecArgMax(e) ==
    CHOOSE i \in Categories :
        /\ ShareEq(e[i], VecMax(e))
        /\ \A j \in Categories : j < i => ~ShareEq(e[j], VecMax(e))

\* mask.nonzero()[0]: the indices where the mask is true, ascending
RECURSIVE NonZeroFrom(_, _)
NonZeroFrom(m, i) ==
    IF i >= NumEmotions THEN <<>>
    ELSE (IF m[i] THEN <<i>> ELSE <<>>) \o NonZeroFrom(m, i + 1)

NonZero(m) == NonZeroFrom(m, 0)

\* np.linalg.norm(regress - center, ord=2), kept as its square: the square
\* root is monotone, so the order and the equality of distances are the same
Dist2(regress, center) ==
    (regress[1] - center[1]) * (regress[1] - center[1])
        + (regress[2] - center[2]) * (regress[2] - center[2])

\* argmin that returns the last position holding the minimum
ArgMinLast(d) ==
    CHOOSE k \in 1..Len(d) :
        /\ \A j \in 1..Len(d) : d[k] <= d[j]
        /\ \A j \in 1..Len(d) : j > k => d[j] > d[k]

\* np.array(total_dist).argmin(): the first position holding the minimum
\* (a position of the 1-based sequence d)
ArgMin(d) ==
    CHOOSE k \in 1..Len(d) :
        /\ \A j \in 1..Len(d) : d[k] <= d[j]
        /\ \A j \in 1..Len(d) : j < k => d[j] > d[k]

\* _find_deuce_label returning the position in the tied list instead of the
\* category at that position
find_deuce_label_Position(corpus, regress, m) ==
    LET mask == NonZero(m)
        total_dist == [k \in 1..Len(mask) |-> Dist2(regress, eva_dict(corpus)[mask[k]])]
    IN  ArgMin(total_dist) - 1

\* KEMDBase._find_deuce_label(regress, mask)
find_deuce_label(corpus, regress, m) ==
    LET mask == NonZero(m)
        total_dist == [k \in 1..Len(mask) |-> Dist2(regress, eva_dict(corpus)[mask[k]])]
    IN  mask[ArgMin(total_dist)]

\* KEMDBase.get_hard_vote(data) with data["emotion"] = e, data["valence"],
\* data["arousal"] = regress
get_hard_vote(corpus, e, regress) ==
    LET m == [i \in Categories |-> ShareEq(e[i], VecMax(e))]
    IN  IF Len(NonZero(m)) > 1
        THEN find_deuce_label(corpus, regress, m)
        ELSE VecArgMax(e)

\* the vote counts of a row: every row carries at least one annotator vote
VoteVectors == {ev \in [Categories -> 0..MaxVotes] : VecSum(ev) \in 1..MaxVotes}

InitVote ==
    /\ votePc = "call"
    /\ voteCorpus \in {"kemdy19", "kemdy20"}
    /\ voteCounts \in VoteVectors
    /\ voteVA \in (1..MaxCoord) \X (1..MaxCoord)
    /\ voteOut = -1
    /\ PadIdle /\ FoldIdle /\ DbIdle /\ HfIdle /\ LabelIdle /\ ExtIdle

\* __getitem__ lines 140-149: the emotion vector, then the hard vote
CallGetHardVote ==
    /\ votePc = "call"
    /\ voteOut' = get_hard_vote(voteCorpus, vectorize(voteCounts), voteVA)
    /\ votePc' = "done"
    /\ UNCHANGED <<voteCorpus, voteCounts, voteVA, padVars, foldVars, dbVars, hfVars, labelVars, extVars>>

NextVote == CallGetHardVote

SpecVote == InitVote /\ [][NextVote]_vars

\* the categories with the most votes on the row, and a category's squared
\* distance from the row's point
MostVoted ==
    {i \in Categories : \A j \in Categories : voteCounts[j] <= voteCounts[i]}
CentroidDist2(i) == Dist2(voteVA, eva_dict(voteCorpus)[i])

\* C4: get_hard_vote returns a category whose vote share is maximal: the
\* single maximal category if there is one, else a tied category whose
\* centroid is nearest to the row's point among the tied ones, never a
\* category outside the tie.
C4_HardVoteIsNearestTied ==
    votePc = "done" =>
        /\ voteOut \in MostVoted
        /\ \A j \in MostVoted : CentroidDist2(voteOut) <= CentroidDist2(j)

\* C4 witness: a tie was resolved although a category outside the tie has a
\* centroid strictly nearer than every tied one
C4_Witness ==
    /\ votePc = "done"
    /\ Cardinality(MostVoted) > 1
    /\ \E o \in Categories \ MostVoted :
           \A j \in MostVoted : CentroidDist2(o) < CentroidDist2(j)
    /\ voteOut \in MostVoted

\* the tied categories whose centroid is nearest
NearestTied ==
    {i \in MostVoted : \A j \in MostVoted : CentroidDist2(i) <= CentroidDist2(j)}

\* C5: when tied categories are exactly equidistant from the row's point,
\* the one with the lowest category index is returned.
C5_EquidistantLowestIndex ==
    (votePc = "done" /\ Cardinality(MostVoted) > 1) =>
        /\ voteOut \in NearestTied
        /\ \A j \in NearestTied : voteOut <= j

\* C5 witness: two nearest tied categories at the same distance
C5_Witness ==
    /\ votePc = "done"
    /\ Cardinality(NearestTied) > 1
    /\ \E j \in NearestTied : voteOut < j

(***************************************************************************)
(* get_folds and split_folds                                               *)
(***************************************************************************)
\* KEMDBase.NUM_FOLDS
NUM_FOLDS == 5

\* NUM_SESSIONS of KEMDy19Dataset and KEMDy20Dataset
NUM_SESSIONS(corpus) == IF corpus = "kemdy19" THEN 20 ELSE 40

\* RunMode
RunModes == {"TRAIN", "VALID", "TEST"}

Min(a, b) == IF a < b THEN a ELSE b

\* erc.preprocess.get_folds(num_session, num_folds): fold id -> range of
\* sessions.  Its source is not part of the sources; it is modelled from its
\* contract: contiguous ranges, as equal as possible, ordered by session
\* number, fold 0 starting at session 1 (4 sessions per fold for 20 / 5).
get_folds(num_session, num_folds) ==
    LET base == num_session \div num_folds
        extra == num_session % num_folds
        start(f) == 1 + f * base + Min(f, extra)
    IN  [f \in 0..(num_folds - 1) |-> start(f)..(start(f + 1) - 1)]

DigitChars == <<"0", "1", "2", "3", "4", "5", "6", "7", "8", "9">>

\* int(c) of a digit character
DigitOf(c) == (CHOOSE d \in 1..10 : DigitChars[d] = c) - 1

\* "%02d" % n for 0 <= n < 100
TwoDigits(n) == <<DigitChars[(n \div 10) + 1], DigitChars[(n % 10) + 1]>>

\* the segment id of row k recorded in a session, as the list of its
\* "_"-separated tokens; the session token is kept as its characters:
\*   KEMDy19: Sess01_script01_M001      KEMDy20: Sess01_script01_User002M_001
SegmentId(corpus, session, k) ==
    LET sess == <<"S", "e", "s", "s">> \o TwoDigits(session)
        g == IF k % 2 = 1 THEN "M" ELSE "F"
    IN  IF corpus = "kemdy19"
        THEN <<sess, "script01", <<g>> \o TwoDigits(k)>>
        ELSE <<sess, "script01", <<"U">> \o TwoDigits(k) \o <<g>>, TwoDigits(k)>>

\* s[-n:] of a character sequence
Suffix(s, n) == [i \in 1..Min(n, Len(s)) |-> s[Len(s) - Min(n, Len(s)) + i]]

\* int(s) of a sequence of digit characters
RECURSIVE IntOf(_)
IntOf(s) == IF s = <<>> THEN 0 ELSE 10 * IntOf(SubSeq(s, 1, Len(s) - 1)) + DigitOf(s[Len(s)])

\* the session number read from the last character of the session token only
SessionOf_LastChar(segment_id) == IntOf(Suffix(segment_id[1], 1))

\* lines 288-289: int(s.split("_")[0][-2:])
SessionOf(segment_id) == IntOf(Suffix(segment_id[1], 2))

\* total_df.loc[loc]: the rows whose position is selected, in order
RECURSIVE Loc(_, _)
Loc(df, keep) ==
    IF df = <<>> THEN <<>>
    ELSE Loc(SubSeq(df, 1, Len(df) - 1), keep)
             \o (IF keep[Len(df)] THEN <<df[Len(df)]>> ELSE <<>>)

\* split_folds selecting the fold's own rows in every mode
split_folds_NoNegate(corpus, total_df, fold_num, mode) ==
    IF fold_num = -1
    THEN total_df
    ELSE LET fold_range == get_folds(NUM_SESSIONS(corpus), NUM_FOLDS)[fold_num]
             isin == [i \in 1..Len(total_df) |-> SessionOf(total_df[i]) \in fold_range]
         IN  Loc(total_df, isin)

\* KEMDBase.split_folds(total_df, fold_num, mode)
split_folds(corpus, total_df, fold_num, mode) ==
    IF fold_num = -1
    THEN total_df
    ELSE LET fold_range == get_folds(NUM_SESSIONS(corpus), NUM_FOLDS)[fold_num]
             isin == [i \in 1..Len(total_df) |-> SessionOf(total_df[i]) \in fold_range]
             loc == IF mode = "TRAIN"
                    THEN [i \in 1..Len(total_df) |-> ~isin[i]]
                    ELSE isin
         IN  Loc(total_df, loc)

\* the sessions of the rows of a normalized table: the annotation tables are
\* concatenated session by session, so the sessions do not decrease
SessionLists(corpus) ==
    UNION {{ss \in [1..n -> 1..NUM_SESSIONS(corpus)] :
               \A i \in 1..n : \A j \in 1..n : i < j => ss[i] <= ss[j]} : n \in 0..MaxRows}

InitFold ==
    /\ foldPc = "call"
    /\ \/ /\ foldOp = "split_folds"
          /\ foldCorpus \in {"kemdy19", "kemdy20"}
          /\ foldSessions \in SessionLists(foldCorpus)
          /\ foldNum \in -1..(NUM_FOLDS - 1)
          /\ foldMode \in RunModes
          /\ gfArgs = <<0, 0>>
       \/ /\ foldOp = "get_folds"
          /\ foldCorpus = NoneVal /\ foldSessions = <<>> /\ foldNum = -1
          /\ foldMode = NoneVal
          /\ gfArgs \in (1..MaxSessionsArg) \X (1..MaxFoldsArg)
    /\ foldDf = [i \in 1..Len(foldSessions) |-> SegmentId(foldCorpus, foldSessions[i], i)]
    /\ foldOut = <<>> /\ gfOut = <<>>
    /\ PadIdle /\ VoteIdle /\ DbIdle /\ HfIdle /\ LabelIdle /\ ExtIdle

CallSplitFolds ==
    /\ foldPc = "call" /\ foldOp = "split_folds"
    /\ foldOut' = split_folds(foldCorpus, foldDf, foldNum, foldMode)
    /\ foldPc' = "done"
    /\ UNCHANGED <<foldCorpus, foldSessions, foldDf, foldNum, foldMode, foldOp, gfArgs,
                   gfOut, padVars, voteVars, dbVars, hfVars, labelVars, extVars>>

CallGetFolds ==
    /\ foldPc = "call" /\ foldOp = "get_folds"
    /\ gfOut' = get_folds(gfArgs[1], gfArgs[2])
    /\ foldPc' = "done"
    /\ UNCHANGED <<foldCorpus, foldSessions, foldDf, foldNum, foldMode, foldOp, gfArgs,
                   foldOut, padVars, voteVars, dbVars, hfVars, labelVars, extVars>>

NextFold == CallSplitFolds \/ CallGetFolds

SpecFold == InitFold /\ [][NextFold]_vars

SplitDone == foldPc = "done" /\ foldOp = "split_folds"

\* the rows of the table, by position, that a result contains
RowsIn(out) == {i \in 1..Len(foldDf) : \E k \in 1..Len(out) : out[k] = foldDf[i]}

\* the rows recorded in a session of the fold's range
InFold(f) ==
    {i \in 1..Len(foldDf) : foldSessions[i] \in get_folds(NUM_SESSIONS(foldCorpus), NUM_FOLDS)[f]}

\* C1: for a fold id in 0..4 every row is returned in exactly one of TRAIN
\* and VALID; TRAIN gets the rows whose session is outside the fold's range,
\* any other mode the rows inside it; for fold id -1 the whole table is
\* returned unfiltered in every mode.
C1_SplitFoldsPartitions ==
    SplitDone =>
        IF foldNum = -1
        THEN foldOut = foldDf
        ELSE /\ RowsIn(foldOut) = (IF foldMode = "TRAIN"
                                   THEN (1..Len(foldDf)) \ InFold(foldNum)
                                   ELSE InFold(foldNum))
             /\ Len(foldOut) = Cardinality(RowsIn(foldOut))
             /\ \A i \in 1..Len(foldDf) :
                    (i \in RowsIn(split_folds(foldCorpus, foldDf, foldNum, "TRAIN")))
                        # (i \in RowsIn(split_folds(foldCorpus, foldDf, foldNum, "VALID")))

\* C1 witness: a TRAIN split that keeps one row and drops another
C1_Witness ==
    /\ SplitDone /\ foldNum # -1 /\ foldMode = "TRAIN"
    /\ Len(foldDf) = 2 /\ Len(foldOut) = 1
    /\ foldSessions[1] \in get_folds(NUM_SESSIONS(foldCorpus), NUM_FOLDS)[foldNum]
    /\ foldOut[1] = foldDf[2]

\* the fold ranges are pairwise disjoint and cover exactly 1..n
IsPartition(folds, n) ==
    /\ \A f \in DOMAIN folds : \A g \in DOMAIN folds : f # g => folds[f] \cap folds[g] = {}
    /\ UNION {folds[f] : f \in DOMAIN folds} = 1..n

NoInt == <<>>

\* total_df = None, and a table with its rows and its emotion columns
NoTable == [none |-> TRUE, rows |-> <<>>, emo_cols |-> {}]
Table(rows, emo_cols) == [none |-> FALSE, rows |-> rows, emo_cols |-> emo_cols]

\* the cache file: absent, empty (pd.read_csv raises EmptyDataError), or a
\* table
AbsentFile == [state |-> "absent", table |-> NoTable]
EmptyFile == [state |-> "empty", table |-> NoTable]
ValidFile(table) == [state |-> "valid", table |-> table]

\* the corpus: row i lies in session 1, 9, or the last session, in the order
\* of the sessions; every second row carries a two-category vote string
CorpusSession(corpus, i) == IF i = 1 THEN 1 ELSE IF i = 2 THEN 9 ELSE NUM_SESSIONS(corpus)
CorpusRow(corpus, i) ==
    [segment_id |-> SegmentId(corpus, CorpusSession(corpus, i), i),
     emotion |-> IF i % 2 = 0 THEN <<"happy", "neutral">> ELSE <<"happy">>]
CorpusRows(corpus, n) == [i \in 1..n |-> CorpusRow(corpus, i)]

\* merge_csv_kemdy19 / merge_csv_kemdy20(base_path, save_path,
\* exclude_multilabel).  Their source is not part of the sources; modelled
\* from the contract of the merger: read the raw annotation tables (failing
\* when they are missing), add one column per emotion category unless the
\* multilabel columns are excluded, write the table to save_path, return it.
merge_csv(raw, exclude_multilabel) ==
    IF raw.present
    THEN LET t == Table(raw.rows, IF exclude_multilabel THEN {} ELSE Categories)
         IN  [error |-> NoneVal, table |-> t, writes |-> 1, file |-> ValidFile(t)]
    ELSE [error |-> "MissingInputError", table |-> NoTable, writes |-> 0, file |-> NoneVal]

\* str.upper() on the mode strings of the model
Upper(str) ==
    CASE str \in {"train", "Train", "TRAIN"} -> "TRAIN"
      [] str \in {"valid", "VALID"} -> "VALID"
      [] str \in {"test", "TEST"} -> "TEST"
      [] str = "dev" -> "DEV"
      [] OTHER -> str

\* RunMode[mode.upper()] if isinstance(mode, str) else mode; a string that
\* names no member raises KeyError
RunModeOf(mode) ==
    IF mode.type = "enum" THEN mode.value
    ELSE IF Upper(mode.value) \in RunModes THEN Upper(mode.value)
    ELSE "KeyError"

\* '...'.str.contains(';') of a vote string, kept as the list of its votes
ContainsSemicolon(emotion) == Len(emotion) > 1

\* the outcome of the table-loading part of processed_db (lines 255-272)
Loaded(error, total_df, merges, writes, file) ==
    [error |-> error, total_df |-> total_df, merges |-> merges, writes |-> writes,
     file |-> file]

FromMerge(r, file0) ==
    Loaded(r.error, r.table, 1, r.writes, IF r.error = NoneVal THEN r.file ELSE file0)

\* the loading part with an empty cache file regenerated from the raw tables
LoadTable_Regenerate(self, file, raw) ==
    IF file.state = "absent" \/ self.generate_csv
    THEN FromMerge(merge_csv(raw, ~self.multilabel), file)
    ELSE IF file.state = "empty"
    THEN FromMerge(merge_csv(raw, ~self.multilabel), file)
    ELSE IF self.multilabel /\ (Categories \cap file.table.emo_cols = {})
    THEN FromMerge(merge_csv(raw, FALSE), file)
    ELSE Loaded(NoneVal, file.table, 0, 0, file)

\* the loading part with the cache regenerated whenever multilabel is set
LoadTable_AlwaysMerge(self, file, raw) ==
    IF file.state = "absent" \/ self.generate_csv
    THEN FromMerge(merge_csv(raw, ~self.multilabel), file)
    ELSE IF file.state = "empty"
    THEN Loaded(NoneVal, NoTable, 0, 0, file)
    ELSE IF self.multilabel
    THEN FromMerge(merge_csv(raw, FALSE), file)
    ELSE Loaded(NoneVal, file.table, 0, 0, file)

\* processed_db, lines 255-272: total_df from merge_csv or from the cache
LoadTable(self, file, raw) ==
    IF file.state = "absent" \/ self.generate_csv
    THEN FromMerge(merge_csv(raw, ~self.multilabel), file)
    ELSE IF file.state = "empty"
    THEN Loaded(NoneVal, NoTable, 0, 0, file)
    ELSE IF self.multilabel /\ (Categories \cap file.table.emo_cols = {})
    THEN FromMerge(merge_csv(raw, FALSE), file)
    ELSE Loaded(NoneVal, file.table, 0, 0, file)

\* df[~df['emotion'].str.contains(';')]
RemoveDeuce(rows) ==
    Loc(rows, [i \in 1..Len(rows) |-> ~ContainsSemicolon(rows[i].emotion)])

\* the rows split_folds keeps, by the segment ids it keeps
SplitRows(corpus, rows, fold_num, mode) ==
    LET ids == [i \in 1..Len(rows) |-> rows[i].segment_id]
        kept == split_folds(corpus, ids, fold_num, mode)
    IN  Loc(rows, [i \in 1..Len(rows) |-> \E k \in 1..Len(kept) : kept[k] = ids[i]])

\* processed_db, lines 274-277: split_folds, then remove_deuce.  A null
\* total_df passes through split_folds when fold_num is -1 and raises a
\* TypeError when it is subscripted.
Partition(self, corpus, mode, total_df) ==
    IF total_df.none
    THEN IF self.validation_fold # -1 \/ self.remove_deuce
         THEN [error |-> "TypeError", df |-> NoTable]
         ELSE [error |-> NoneVal, df |-> NoTable]
    ELSE LET split == SplitRows(corpus, total_df.rows, self.validation_fold, mode)
         IN  [error |-> NoneVal,
              df |-> Table(IF self.remove_deuce THEN RemoveDeuce(split) ELSE split,
                           total_df.emo_cols)]

\* round(0.05 * n) of Python: to the nearest integer, a tie to the even one
Round5Percent(n) ==
    LET q == (5 * n) \div 100
        r == (5 * n) % 100
    IN  IF r > 50 \/ (r = 50 /\ q % 2 = 1) THEN q + 1 ELSE q

\* __init__, lines 96-102: self.num_data; len(self.df) of a null table raises
LimitNumData(num_data, df) ==
    IF num_data = NoInt THEN [error |-> NoneVal, num_data |-> NoInt]
    ELSE IF df.none THEN [error |-> "TypeError", num_data |-> NoInt]
    ELSE IF num_data[1] \in 0..(Len(df.rows) - 1)
    THEN [error |-> NoneVal, num_data |-> num_data]
    ELSE [error |-> NoneVal, num_data |-> <<Round5Percent(Len(df.rows))>>]

Outcome(error, loaded, df, num_data) ==
    [error |-> error, merges |-> loaded.merges, writes |-> loaded.writes,
     file |-> loaded.file, total_df |-> loaded.total_df, df |-> df, num_data |-> num_data]

NotLoaded(file) == Loaded(NoneVal, NoTable, 0, 0, file)

\* KEMDBase.__init__ (lines 76-102) on the cache file and the raw tables:
\* the fold assertion, the mode lookup, processed_db, then num_data
Construct(self, corpus, file, raw) ==
    IF self.validation_fold \notin -1..4
    THEN Outcome("AssertionError", NotLoaded(file), NoTable, NoInt)
    ELSE IF RunModeOf(self.mode) = "KeyError"
    THEN Outcome("KeyError", NotLoaded(file), NoTable, NoInt)
    ELSE LET loaded == LoadTable(self, file, raw)
         IN  IF loaded.error # NoneVal
             THEN Outcome(loaded.error, loaded, NoTable, NoInt)
             ELSE LET part == Partition(self, corpus, RunModeOf(self.mode), loaded.total_df)
                  IN  IF part.error # NoneVal
                      THEN Outcome(part.error, loaded, NoTable, NoInt)
                      ELSE LET lim == LimitNumData(self.num_data, part.df)
                           IN  Outcome(lim.error, loaded, part.df, lim.num_data)

\* KEMDBase.__len__: len(self.df) if not self.num_data else
\* len(self.df[:self.num_data]); num_data None and num_data 0 are both falsy
Length(df, num_data) ==
    IF num_data = NoInt \/ num_data = <<0>>
    THEN Len(df.rows)
    ELSE Len(Prefix(df.rows, num_data[1]))

\* len(accessor): len(self.df) of a null table raises
LenOf(acc) ==
    IF acc.df.none
    THEN [error |-> "TypeError", value |-> 0]
    ELSE [error |-> NoneVal, value |-> Length(acc.df, acc.num_data)]

ModeArgs ==
    [type : {"str"}, value : {"train", "valid", "test"}]
        \cup [type : {"enum"}, value : RunModes]

InitArgs ==
    [generate_csv : BOOLEAN, multilabel : BOOLEAN, remove_deuce : BOOLEAN,
     validation_fold : -1..4, mode : ModeArgs,
     num_data : {NoInt} \cup {<<n>> : n \in 0..(MaxDbRows + 1)}]

\* the cache files a construction can find: none, an empty one, or a table
\* of the corpus without, with one, or with all of the category columns
CacheFiles(rows) ==
    {AbsentFile, EmptyFile} \cup {ValidFile(Table(rows, c)) : c \in {{}, {3}, Categories}}

InitDb ==
    /\ dbPc = "call"
    /\ dbCorpus \in {"kemdy19", "kemdy20"}
    /\ \E n \in 0..MaxDbRows :
           /\ dbRaw \in {[present |-> TRUE, rows |-> CorpusRows(dbCorpus, n)],
                         [present |-> FALSE, rows |-> <<>>]}
           /\ dbCache0 \in CacheFiles(CorpusRows(dbCorpus, n))
    /\ cache = dbCache0
    /\ dbArgs \in InitArgs
    /\ dbMerges = 0 /\ dbWrites = 0 /\ dbTable = NoTable
    /\ dbResult = [error |-> NoneVal, df |-> NoTable, num_data |-> NoInt]
    /\ dbLen = [error |-> NoneVal, value |-> 0]
    /\ PadIdle /\ VoteIdle /\ FoldIdle /\ HfIdle /\ LabelIdle /\ ExtIdle

\* KEMDy19Dataset(...) / KEMDy20Dataset(...)
CallConstruct ==
    /\ dbPc = "call"
    /\ LET o == Construct(dbArgs, dbCorpus, cache, dbRaw)
       IN  /\ cache' = o.file
           /\ dbMerges' = o.merges
           /\ dbWrites' = o.writes
           /\ dbTable' = o.total_df
           /\ dbResult' = [error |-> o.error, df |-> o.df, num_data |-> o.num_data]
    /\ dbPc' = "done"
    /\ UNCHANGED <<dbArgs, dbCorpus, dbRaw, dbCache0, dbLen, padVars, voteVars, foldVars,
                   hfVars, labelVars, extVars>>

\* len(dataset) on an accessor whose construction completed
CallLen ==
    /\ dbPc = "done" /\ dbResult.error = NoneVal
    /\ dbLen' = LenOf(dbResult)
    /\ dbPc' = "len"
    /\ UNCHANGED <<dbArgs, dbCorpus, dbRaw, dbCache0, cache, dbMerges, dbWrites, dbTable,
                   dbResult, padVars, voteVars, foldVars, hfVars, labelVars, extVars>>

NextDb == CallConstruct \/ CallLen

SpecDb == InitDb /\ [][NextDb]_vars

\* the construction found an empty cache file and was not told to regenerate
EmptyCacheRead == dbPc = "done" /\ dbCache0.state = "empty" /\ ~dbArgs.generate_csv

C9_NullTableRejected ==
    EmptyCacheRead => dbResult.error # NoneVal

\* the cache holds every column its mode needs
SchemaMatching(file, multilabel) ==
    file.state = "valid" /\ (multilabel => Categories \subseteq file.table.emo_cols)

\* C10: with a valid, schema-matching cache and generate_csv false, merge_csv
\* is not called and the cache file is not written; merge_csv runs only when
\* the cache is absent, generate_csv is true, or the schema check fails.
C10_ValidCacheNotRegenerated ==
    dbPc = "done" =>
        /\ (SchemaMatching(dbCache0, dbArgs.multilabel) /\ ~dbArgs.generate_csv) =>
               (dbMerges = 0 /\ dbWrites = 0 /\ cache = dbCache0)
        /\ dbMerges > 0 =>
               \/ dbCache0.state = "absent"
               \/ dbArgs.generate_csv
               \/ ~SchemaMatching(dbCache0, dbArgs.multilabel)

\* C10 witness: a multilabel accessor built on a cache with all the columns
C10_Witness ==
    /\ dbPc = "done" /\ dbArgs.multilabel /\ ~dbArgs.generate_csv
    /\ SchemaMatching(dbCache0, TRUE) /\ dbRaw.present
    /\ dbResult.error = NoneVal /\ dbMerges = 0 /\ Len(dbResult.df.rows) > 0

\* C11: in multilabel mode the table processed_db hands to split_folds has a
\* column for every emotion category: a cache lacking any of them is
\* regenerated with the category columns before use.
C11_MultilabelTableHasAllColumns ==
    (dbPc = "done" /\ dbArgs.multilabel /\ dbCache0.state = "valid"
        /\ ~dbArgs.generate_csv /\ ~dbTable.none) =>
        Categories \subseteq dbTable.emo_cols

\* the size of the partition the accessor was built on
PartitionSize == Len(dbResult.df.rows)

\* C13: len(accessor) is num_data when 0 <= num_data < L, 5% of L (rounded)
\* when num_data is out of range, L when num_data is not given, and never
\* more than L.
C13_LenIsNumData ==
    (dbPc = "len" /\ dbLen.error = NoneVal) =>
        /\ dbLen.value <= PartitionSize
        /\ dbLen.value =
               (IF dbArgs.num_data = NoInt THEN PartitionSize
                ELSE IF dbArgs.num_data[1] \in 0..(PartitionSize - 1)
                THEN dbArgs.num_data[1]
                ELSE Round5Percent(PartitionSize))

(***************************************************************************)
(* KEMDBase.__len__ and HF_KEMD.__init__                                   *)
(***************************************************************************)
\* the normalized-table cache and raw tables the HF_KEMD constructions run
\* on: a valid cache of the KEMDy19 corpus
HfRows == MaxDbRows + 1
HfFile == ValidFile(Table(CorpusRows("kemdy19", HfRows), {}))
HfRaw == [present |-> TRUE, rows |-> CorpusRows("kemdy19", HfRows)]

\* the configurations of HF_KEMD the model constructs: paths "kemdy19",
\* validation_fold 4 (the default), single-label, deuces kept
HfConfigs ==
    [paths : {"kemdy19"}, validation_fold : {4}, multilabel : {FALSE},
     remove_deuce : {FALSE},
     mode : {[type |-> "str", value |-> "train"], [type |-> "str", value |-> "valid"],
             [type |-> "enum", value |-> "TRAIN"]},
     num_data : {NoInt} \cup {<<n>> : n \in 0..HfRows},
     preprocess : BOOLEAN, save_to_disk : BOOLEAN]

\* RunMode.value
ModeValue(member) ==
    CASE member = "TRAIN" -> "train" [] member = "VALID" -> "valid" [] OTHER -> "test"

\* ds_name, line 490
ds_name(c) ==
    <<c.paths, ModeValue(RunModeOf(c.mode)), c.validation_fold, c.multilabel,
      c.remove_deuce>>

\* the collection of examples: the segment ids in order, and whether the
\* examples went through self.preprocess
Collection(ids, preprocessed) == [ids |-> ids, preprocessed |-> preprocessed]
NoCollection == Collection(<<>>, FALSE)

HfOutcome(error, how, ds, disk) == [error |-> error, how |-> how, ds |-> ds, disk |-> disk]

\* lines 494-496: the dataset loaded from disk; select(list(range(num_data)))
\* when the mode argument is the string 'train'
LoadFromDisk(c, saved, disk) ==
    IF c.mode = [type |-> "str", value |-> "train"]
    THEN IF c.num_data = NoInt
         THEN HfOutcome("TypeError", "loaded", NoCollection, disk)
         ELSE IF c.num_data[1] > Len(saved.ids)
         THEN HfOutcome("IndexError", "loaded", NoCollection, disk)
         ELSE HfOutcome(NoneVal, "loaded",
                        Collection(Prefix(saved.ids, c.num_data[1]), saved.preprocessed),
                        disk)
    ELSE HfOutcome(NoneVal, "loaded", saved, disk)

\* lines 511-570: the accessor built, every example generated, pre-processed
\* and saved under ds_name
BuildFromScratch(c, disk) ==
    LET self == [generate_csv |-> FALSE, multilabel |-> c.multilabel,
                 remove_deuce |-> c.remove_deuce, validation_fold |-> c.validation_fold,
                 mode |-> c.mode, num_data |-> c.num_data]
        acc == Construct(self, c.paths, HfFile, HfRaw)
    IN  IF acc.error # NoneVal
        THEN HfOutcome(acc.error, "built", NoCollection, disk)
        ELSE IF Len(acc.df.rows) = 0
        THEN HfOutcome("IndexError", "built", NoCollection, disk)
        ELSE LET n == Length(acc.df, acc.num_data)
                 ds == Collection([i \in 1..n |-> acc.df.rows[i].segment_id], c.preprocess)
             IN  HfOutcome(NoneVal, "built", ds,
                           IF c.save_to_disk
                           THEN disk \cup {[name |-> ds_name(c), config |-> c, ds |-> ds]}
                           ELSE disk)

\* HF_KEMD.__init__
HfConstruct(c, disk) ==
    IF \E e \in disk : e.name = ds_name(c)
    THEN LoadFromDisk(c, (CHOOSE e \in disk : e.name = ds_name(c)).ds, disk)
    ELSE BuildFromScratch(c, disk)

InitHF ==
    /\ hfDisk = {}
    /\ hfLast = [called |-> FALSE, config |-> CHOOSE c \in HfConfigs : TRUE,
                 savedSame |-> FALSE, error |-> NoneVal, how |-> NoneVal,
                 ds |-> NoCollection]
    /\ PadIdle /\ VoteIdle /\ FoldIdle /\ DbIdle /\ LabelIdle /\ ExtIdle

\* HF_KEMD(...) with any configuration, on the disk the earlier
\* constructions left
CallHfConstruct ==
    \E c \in HfConfigs :
        LET o == HfConstruct(c, hfDisk)
        IN  /\ hfDisk' = o.disk
            /\ hfLast' = [called |-> TRUE, config |-> c,
                          savedSame |-> \E e \in hfDisk : e.name = ds_name(c) /\ e.config = c,
                          error |-> o.error, how |-> o.how, ds |-> o.ds]
            /\ UNCHANGED <<padVars, voteVars, foldVars, dbVars, labelVars, extVars>>

NextHF == CallHfConstruct

SpecHF == InitHF /\ [][NextHF]_vars

\* C7: once a construction has saved its dataset under the fingerprint
\* name, every later construction with the identical configuration (any
\* mode, any num_data, None included) loads it from disk and completes,
\* without building the accessors or pre-processing again.
C7_SavedDatasetLoadedOnce ==
    (hfLast.called /\ hfLast.savedSame) =>
        (hfLast.error = NoneVal /\ hfLast.how = "loaded")

(***************************************************************************)
(* get_emo and str2num                                                     *)
(***************************************************************************)
\* emotion2idx: the emotion vocabulary and its indices
EmotionNames == <<"surprise", "fear", "angry", "neutral", "happy", "sad", "disgust">>
emotion2idx == [name \in {EmotionNames[k] : k \in 1..Len(EmotionNames)} |->
                   (CHOOSE k \in 1..Len(EmotionNames) : EmotionNames[k] = name) - 1]

\* an emotion string is kept as the list of the words that ";" joins: a
\* string is a key of emotion2idx when it is one word of the vocabulary
IsKey(key) == Len(key) = 1 /\ key[1] \in DOMAIN emotion2idx

\* str2num with the default label 0 for a string that is no key
str2num_DefaultZero(key) == IF IsKey(key) THEN emotion2idx[key[1]] ELSE 0

\* KEMDBase.str2num: emotion2idx.get(key, -1)
str2num(key) == IF IsKey(key) THEN emotion2idx[key[1]] ELSE -1

\* KEMDBase.get_emo of a single-label row: row["emotion"] is a str
get_emo(emotion) == str2num(emotion)

\* the words of an emotion string: the vocabulary and words outside it
EmotionWords == DOMAIN emotion2idx \cup {"Happy", "", "unknown"}
EmotionStrings == UNION {[1..n -> EmotionWords] : n \in 1..MaxVotes}

InitLabel ==
    /\ labelPc = "call"
    /\ labelKey \in EmotionStrings
    /\ labelOut = -1
    /\ PadIdle /\ VoteIdle /\ FoldIdle /\ DbIdle /\ HfIdle /\ ExtIdle

\* __getitem__ line 140 in single-label mode
CallGetEmo ==
    /\ labelPc = "call"
    /\ labelOut' = get_emo(labelKey)
    /\ labelPc' = "done"
    /\ UNCHANGED <<labelKey, padVars, voteVars, foldVars, dbVars, hfVars, extVars>>

NextLabel == CallGetEmo

SpecLabel == InitLabel /\ [][NextLabel]_vars

\* C15: in single-label mode every category string of the vocabulary maps to
\* its vocabulary index, every other string (a semicolon-joined vote string
\* included) maps to the sentinel -1, and -1 is the index of no category.
C15_UnknownLabelIsSentinel ==
    labelPc = "done" =>
        /\ (Len(labelKey) = 1 /\ \E k \in 1..7 : EmotionNames[k] = labelKey[1]) =>
               (labelOut \in 0..6 /\ EmotionNames[labelOut + 1] = labelKey[1])
        /\ ~(Len(labelKey) = 1 /\ \E k \in 1..7 : EmotionNames[k] = labelKey[1]) =>
               labelOut = -1
        /\ \A name \in DOMAIN emotion2idx : emotion2idx[name] # -1

\* C15 witness: a two-vote string of vocabulary words mapped to the sentinel
C15_Witness ==
    /\ labelPc = "done" /\ labelKey = <<"happy", "neutral">> /\ labelOut = -1

(***************************************************************************)
(* KEMDBase.__getitem__                                                    *)
(***************************************************************************)
\* gender2idx
gender2idx == [g \in {"M", "F"} |-> IF g = "M" THEN 0 ELSE 1]

\* KEMDBase.gender2num: gender2idx.get(key, -1)
gender2num(key) == IF key \in DOMAIN gender2idx THEN gender2idx[key] ELSE -1

\* parse_segment_id of KEMDy19Dataset (three tokens, gender = speaker[0]) and
\* of KEMDy20Dataset (four tokens, gender = speaker[-1]): the gender, or the
\* ValueError of unpacking another number of tokens
parse_segment_id(corpus, segment_id) ==
    IF corpus = "kemdy19"
    THEN IF Len(segment_id) = 3
         THEN [error |-> NoneVal, gender |-> segment_id[3][1]]
         ELSE [error |-> "ValueError", gender |-> NoneVal]
    ELSE IF Len(segment_id) = 4
         THEN [error |-> NoneVal, gender |-> segment_id[3][Len(segment_id[3])]]
         ELSE [error |-> "ValueError", gender |-> NoneVal]

\* the example under construction: the keys of data, and data["gender"]
Example(error, keys, gender) == [error |-> error, keys |-> keys, gender |-> gender]

\* the keys lines 121-152 add when both files exist
FullKeys(self) ==
    {"segment_id", "sampling_rate", "wav", "wav_mask", "txt", "txt_mask"}
        \cup (IF self.return_bio THEN {"ecg", "e4-eda", "e4-temp"} ELSE {})
        \cup {"emotion", "valence", "arousal"}
        \cup (IF self.multilabel THEN {"vote_emotion"} ELSE {})
        \cup {"gender"}

\* lines 121-153: the example of a row whose files exist; row[self.emo_col]
\* raises KeyError when the table lacks a column it names
LoadExample(self, row, gender) ==
    IF self.multilabel /\ ~(Categories \subseteq row.emo_cols)
    THEN Example("KeyError", {}, -1)
    ELSE Example(NoneVal, FullKeys(self), gender2num(gender))

\* __getitem__ that pre-checks the waveform file only: the text file is then
\* opened by get_txt, which raises when it is missing
getitem_WavOnlyCheck(self, corpus, row, wav_exists, txt_exists) ==
    LET parsed == parse_segment_id(corpus, row.segment_id)
    IN  IF parsed.error # NoneVal THEN Example(parsed.error, {}, -1)
        ELSE IF ~wav_exists THEN Example(NoneVal, {"segment_id"}, -1)
        ELSE IF ~txt_exists THEN Example("FileNotFoundError", {}, -1)
        ELSE LoadExample(self, row, parsed.gender)

\* KEMDBase.__getitem__(idx) on row = self.df.iloc[idx]
getitem(self, corpus, row, wav_exists, txt_exists) ==
    LET parsed == parse_segment_id(corpus, row.segment_id)
    IN  IF parsed.error # NoneVal THEN Example(parsed.error, {}, -1)
        ELSE IF ~wav_exists \/ ~txt_exists THEN Example(NoneVal, {"segment_id"}, -1)
        ELSE LoadExample(self, row, parsed.gender)

\* the accessors __getitem__ is called on: the table has the category
\* columns merge_csv writes for the accessor's mode, and the bio timestamps
\* are read only from the KEMDy19 table, which has them
ItemAccessors ==
    {a \in [corpus : {"kemdy19", "kemdy20"}, return_bio : BOOLEAN, multilabel : BOOLEAN,
            max_length_wav : {0, MaxPad}, emo_cols : {{}, Categories}] :
        /\ a.multilabel => a.emo_cols = Categories
        /\ a.return_bio => a.corpus = "kemdy19"}

InitItem ==
    /\ itemPc = "call"
    /\ \E a \in ItemAccessors : \E i \in 1..(MaxDbRows + 1) :
       \E w \in BOOLEAN : \E t \in BOOLEAN :
           itemIn = [self |-> a,
                     row |-> [segment_id |-> CorpusRow(a.corpus, i).segment_id,
                              emo_cols |-> a.emo_cols],
                     wav_exists |-> w, txt_exists |-> t]
    /\ itemOut = Example(NoneVal, {}, -1)
    /\ PadIdle /\ VoteIdle /\ FoldIdle /\ DbIdle /\ HfIdle /\ LabelIdle /\ AhIdle /\ CtIdle

\* dataset[idx]
CallGetItem ==
    /\ itemPc = "call"
    /\ itemOut' = getitem(itemIn.self, itemIn.self.corpus, itemIn.row, itemIn.wav_exists,
                          itemIn.txt_exists)
    /\ itemPc' = "done"
    /\ UNCHANGED <<itemIn, padVars, voteVars, foldVars, dbVars, hfVars, labelVars, ahVars,
                   ctVars>>

NextItem == CallGetItem

SpecItem == InitItem /\ [][NextItem]_vars

Range(seq) == {seq[i] : i \in DOMAIN seq}

\* list(S) of a set of small integers: ascending
RECURSIVE Ascending(_)
Ascending(S) ==
    IF S = {} THEN <<>>
    ELSE LET lo == CHOOSE x \in S : \A y \in S : x <= y
         IN  <<lo>> \o Ascending(S \ {lo})

\* int(total_len * train_ratio) with train_ratio = 0.8
TrainNum(total_len) == (4 * total_len) \div 5

\* the results random.sample(total_idx, train_num) can give: train_num
\* distinct indices in some order.  Which one depends on the state of the
\* process-wide generator, which every draw advances.
RandomSamples(total_len) ==
    {seq \in [1..TrainNum(total_len) -> 0..(total_len - 1)] :
        \A i, j \in DOMAIN seq : i # j => seq[i] # seq[j]}

Sampled(error, index_list) == [error |-> error, index_list |-> index_list]

\* AIHubDialog.sampling_with_ratio(total_len, mode) when random.sample
\* returns train_idx: mode is compared with the strings "train" and "valid",
\* `assert "check mode"` asserts a non-empty string and never fails, and
\* `return index_list` then reads an unassigned local
sampling_with_ratio(total_len, mode, train_idx) ==
    LET total_idx == 0..(total_len - 1)
        valid_idx == Ascending(total_idx \ Range(train_idx))
    IN  IF mode = [type |-> "str", value |-> "train"] THEN Sampled(NoneVal, train_idx)
        ELSE IF mode = [type |-> "str", value |-> "valid"] THEN Sampled(NoneVal, valid_idx)
        ELSE Sampled("UnboundLocalError", <<>>)

\* the number of draws random.sample(population, k) makes: at least k
DrawsOf(total_len) == TrainNum(total_len)

InitAIHub ==
    /\ ahPc = "start"
    /\ ahIn \in [total_len : 0..MaxAihub]
    /\ ahRng = 0
    /\ ahOut = [train |-> Sampled(NoneVal, <<>>), valid |-> Sampled(NoneVal, <<>>)]
    /\ PadIdle /\ VoteIdle /\ FoldIdle /\ DbIdle /\ HfIdle /\ LabelIdle /\ ItemIdle /\ CtIdle

\* get_dataloaders, mode "train": AIHubDialog(mode="train")
ConstructTrain ==
    /\ ahPc = "start"
    /\ \E train_idx \in RandomSamples(ahIn.total_len) :
           ahOut' = [ahOut EXCEPT !.train =
                        sampling_with_ratio(ahIn.total_len, [type |-> "str", value |-> "train"],
                                            train_idx)]
    /\ ahRng' = ahRng + DrawsOf(ahIn.total_len)
    /\ ahPc' = "train_done"
    /\ UNCHANGED <<ahIn, padVars, voteVars, foldVars, dbVars, hfVars, labelVars, itemVars,
                   ctVars>>

\* any other use of the random module between the two constructions
OtherDraw ==
    /\ ahPc = "train_done"
    /\ ahRng < DrawsOf(ahIn.total_len) + MaxDraws
    /\ ahRng' = ahRng + 1
    /\ UNCHANGED <<ahPc, ahIn, ahOut, padVars, voteVars, foldVars, dbVars, hfVars, labelVars,
                   itemVars, ctVars>>

\* get_dataloaders, mode "valid": AIHubDialog(mode="valid") samples again
ConstructValid ==
    /\ ahPc = "train_done"
    /\ \E train_idx \in RandomSamples(ahIn.total_len) :
           ahOut' = [ahOut EXCEPT !.valid =
                        sampling_with_ratio(ahIn.total_len, [type |-> "str", value |-> "valid"],
                                            train_idx)]
    /\ ahRng' = ahRng + DrawsOf(ahIn.total_len)
    /\ ahPc' = "done"
    /\ UNCHANGED <<ahIn, padVars, voteVars, foldVars, dbVars, hfVars, labelVars, itemVars,
                   ctVars>>

NextAIHub == ConstructTrain \/ OtherDraw \/ ConstructValid

SpecAIHub == InitAIHub /\ [][NextAIHub]_vars

\* C16: when the train-mode and the valid-mode AIHubDialog accessors are
\* constructed one after the other in one process, their index sets are
\* disjoint and together are all of 0..total_len-1, however many draws were
\* made from the generator in between.
C16_TrainValidDisjointCover ==
    ahPc = "done" =>
        /\ Range(ahOut.train.index_list) \cap Range(ahOut.valid.index_list) = {}
        /\ Range(ahOut.train.index_list) \cup Range(ahOut.valid.index_list)
               = 0..(ahIn.total_len - 1)

(***************************************************************************)
(* Construction of the accessors: argument checks before any load          *)
(***************************************************************************)
\* lines 88-91 and 484-488: the fold assertion, then the mode lookup
CheckArgs(validation_fold, mode) ==
    IF validation_fold \notin -1..4 THEN "AssertionError"
    ELSE IF RunModeOf(mode) = "KeyError" THEN "KeyError"
    ELSE NoneVal

\* what a construction did to the cached table, to the saved dataset and
\* to the random generator
Effects(reads, merges, writes, partitioned, ds_loads, ds_saves, samples) ==
    [reads |-> reads, merges |-> merges, writes |-> writes, partitioned |-> partitioned,
     ds_loads |-> ds_loads, ds_saves |-> ds_saves, samples |-> samples]
NoEffects == Effects(0, 0, 0, FALSE, 0, 0, 0)

\* both constructions' effects, one after the other
Both(e, f) ==
    Effects(e.reads + f.reads, e.merges + f.merges, e.writes + f.writes,
            e.partitioned \/ f.partitioned, e.ds_loads + f.ds_loads,
            e.ds_saves + f.ds_saves, e.samples + f.samples)

Constructed(error, size, effects) == [error |-> error, size |-> size, effects |-> effects]

\* pd.read_csv(self.TOTAL_DF_PATH) is reached, line 258
CacheReads(self, file) == IF file.state = "absent" \/ self.generate_csv THEN 0 ELSE 1

\* F(v) with v evaluated once
Once(F(_), v) == CHOOSE out \in {F(x) : x \in {v}} : TRUE

\* KEMDy19Dataset(...) / KEMDy20Dataset(...): KEMDBase.__init__ with what it
\* reads and writes, and len(dataset) of the accessor
KemdInit(self, corpus, file, raw) ==
    IF CheckArgs(self.validation_fold, self.mode) # NoneVal
    THEN Constructed(CheckArgs(self.validation_fold, self.mode), 0, NoEffects)
    ELSE Once(LAMBDA o :
                Constructed(o.error,
                            IF o.error = NoneVal /\ ~o.df.none
                            THEN Length(o.df, o.num_data) ELSE 0,
                            Effects(CacheReads(self, file), o.merges, o.writes,
                                    LoadTable(self, file, raw).error = NoneVal, 0, 0, 0)),
              Construct(self, corpus, file, raw))

\* AIHubDialog(PRETRAINED_DATA_PATH, mode): the mode argument goes to
\* sampling_with_ratio as it was given
AIHubInit(mode, total_len, train_idx) ==
    LET s == sampling_with_ratio(total_len, mode, train_idx)
    IN  Constructed(s.error, Len(s.index_list), Effects(0, 0, 0, FALSE, 0, 0, 1))

\* paths.split("-")
SplitPaths(paths) ==
    CASE paths = "kemdy19-aihub" -> <<"kemdy19", "aihub">>
      [] paths = "kemdy19-kemdy20" -> <<"kemdy19", "kemdy20">>
      [] OTHER -> <<paths>>

\* HF_KEMD._load_dataset(path): the accessor, len(ds) and ds[0]
LoadOne(path, c, file, raw, total_len, train_idx) ==
    Once(LAMBDA ds :
            IF ds.error = NoneVal /\ ds.size = 0
            THEN Constructed("IndexError", 0, ds.effects)
            ELSE ds,
         IF path = "aihub" THEN AIHubInit(c.mode, total_len, train_idx)
         ELSE KemdInit(c, path, file, raw))

\* HF_KEMD.load_dataset: the accessors of paths[i..], the first error raised
RECURSIVE LoadFrom(_, _, _, _, _, _, _)
LoadFrom(paths, i, c, file, raw, total_len, train_idx) ==
    IF i > Len(paths) THEN Constructed(NoneVal, 0, NoEffects)
    ELSE Once(LAMBDA first :
                IF first.error # NoneVal THEN first
                ELSE Once(LAMBDA rest :
                            Constructed(rest.error, first.size + rest.size,
                                        Both(first.effects, rest.effects)),
                          LoadFrom(paths, i + 1, c, file, raw, total_len, train_idx)),
              LoadOne(paths[i], c, file, raw, total_len, train_idx))

\* the dataset an earlier construction saved under ds_name
SavedCollection(c) ==
    Collection([i \in 1..HfRows |-> CorpusRow("kemdy19", i).segment_id], c.preprocess)

\* HF_KEMD.__init__ (lines 483-570): the checks, load_from_disk, and when
\* nothing is saved load_dataset, the generator and save_to_disk
HfInit(c, saved, file, raw, total_len, train_idx) ==
    IF CheckArgs(c.validation_fold, c.mode) # NoneVal
    THEN Constructed(CheckArgs(c.validation_fold, c.mode), 0, NoEffects)
    ELSE IF saved
    THEN LET o == LoadFromDisk(c, SavedCollection(c), {})
         IN  Constructed(o.error, Len(o.ds.ids), Effects(0, 0, 0, FALSE, 1, 0, 0))
    ELSE LET tried == Effects(0, 0, 0, FALSE, 1, 0, 0)
         IN  Once(LAMBDA ds :
                    IF ds.error # NoneVal
                    THEN Constructed(ds.error, 0, Both(tried, ds.effects))
                    ELSE Constructed(NoneVal, ds.size,
                                     Both(tried, Both(ds.effects,
                                          Effects(0, 0, 0, FALSE, 0,
                                                  IF c.save_to_disk THEN 1 ELSE 0, 0)))),
                  LoadFrom(SplitPaths(c.paths), 1, c, file, raw, total_len, train_idx))

\* the mode arguments: the members, their values, and other strings
CtModes ==
    ModeArgs \cup [type : {"str"}, value : {"TRAIN", "dev", ""}]

\* the folds of the corpus: FoldWidth sessions each
FoldWidth(corpus) == NUM_SESSIONS(corpus) \div NUM_FOLDS

\* a normalized table with one row in every fold of the corpus
CtRows(corpus) ==
    [i \in 1..NUM_FOLDS |->
        [segment_id |-> SegmentId(corpus, FoldWidth(corpus) * (i - 1) + 1, i),
         emotion |-> <<"happy">>]]

CtCorpus(paths) == IF paths = "kemdy20" THEN "kemdy20" ELSE "kemdy19"

\* the classes and the arguments they are constructed with: every fold id
\* from below to above the declared range, every mode argument
CtCalls ==
    {call \in [class : {"KEMDy19Dataset", "KEMDy20Dataset", "HF_KEMD"},
               paths : {"kemdy19", "kemdy20", "aihub", "kemdy19-aihub"},
               validation_fold : -2..5, mode : CtModes, num_data : {NoInt, <<1>>},
               generate_csv : {FALSE}, multilabel : {FALSE}, remove_deuce : {FALSE},
               preprocess : {TRUE}, save_to_disk : {TRUE}] :
        /\ call.class = "KEMDy19Dataset" => call.paths = "kemdy19"
        /\ call.class = "KEMDy20Dataset" => call.paths = "kemdy20"
        /\ call.class = "HF_KEMD" => call.paths # "kemdy20"}

InitCtor ==
    /\ ctPc = "call"
    /\ \E call \in CtCalls :
       \E saved \in BOOLEAN :
       \E present \in BOOLEAN :
       \E train_idx \in RandomSamples(CtAihubLen) \cup {<<>>} :
           /\ saved => call.class = "HF_KEMD"
           /\ train_idx = <<>> <=> "aihub" \notin Range(SplitPaths(call.paths))
           /\ ctIn = [call |-> call, saved |-> saved,
                      file |-> IF present
                               THEN ValidFile(Table(CtRows(CtCorpus(call.paths)), {}))
                               ELSE AbsentFile,
                      raw |-> [present |-> TRUE, rows |-> CtRows(CtCorpus(call.paths))],
                      total_len |-> CtAihubLen, train_idx |-> train_idx]
    /\ ctOut = Constructed(NoneVal, 0, NoEffects)
    /\ PadIdle /\ VoteIdle /\ FoldIdle /\ DbIdle /\ HfIdle /\ LabelIdle /\ ItemIdle /\ AhIdle

\* KEMDy19Dataset(...), KEMDy20Dataset(...) or HF_KEMD(...)
CallCtor ==
    /\ ctPc = "call"
    /\ ctOut' = IF ctIn.call.class = "HF_KEMD"
                THEN HfInit(ctIn.call, ctIn.saved, ctIn.file, ctIn.raw, ctIn.total_len,
                            ctIn.train_idx)
                ELSE KemdInit(ctIn.call, ctIn.call.paths, ctIn.file, ctIn.raw)
    /\ ctPc' = "done"
    /\ UNCHANGED <<ctIn, padVars, voteVars, foldVars, dbVars, hfVars, labelVars, itemVars,
                   ahVars>>

NextCtor == CallCtor

SpecCtor == InitCtor /\ [][NextCtor]_vars

FoldInRange == ctIn.call.validation_fold \in -1..4
ModeRecognized ==
    ctIn.call.mode.type = "enum" \/ ctIn.call.mode.value \in {"train", "valid", "test"}
ModeUnknown ==
    ctIn.call.mode.type = "str" /\ Upper(ctIn.call.mode.value) \notin RunModes

\* C14: constructing KEMDy19Dataset, KEMDy20Dataset or HF_KEMD with a fold
\* id outside -1..4 or with a mode string that names no run mode fails at
\* construction before the normalized table is loaded or partitioned and
\* before any cache is read or written; every fold id in the range with
\* every run-mode value, given as enum or as string, is accepted.
C14_ArgumentsCheckedEagerly ==
    ctPc = "done" =>
        /\ (~FoldInRange \/ ModeUnknown) =>
               /\ ctOut.error \in {"AssertionError", "KeyError"}
               /\ ctOut.effects = NoEffects
        /\ (FoldInRange /\ ModeRecognized) => ctOut.error = NoneVal

\* the first half of C14 alone: bad arguments are rejected with no effect
C14_BadArgumentsRejectedFirst ==
    (ctPc = "done" /\ (~FoldInRange \/ ModeUnknown)) =>
        /\ ctOut.error \in {"AssertionError", "KeyError"}
        /\ ctOut.effects = NoEffects

(***************************************************************************)
(* HF_KEMD: the saved dataset and the configuration that loads it          *)
(***************************************************************************)
\* the collection a configuration gives when nothing is saved on disk
FromScratch(c) == BuildFromScratch(c, {}).ds

\* C17: after any sequence of HF_KEMD constructions that save to disk, the
\* collection an instance exposes is the one its own configuration would
\* produce if built from scratch: a dataset saved under one configuration
\* is never loaded for a configuration that yields a different collection.
C17_ExposedCollectionIsOwn ==
    (hfLast.called /\ hfLast.config.save_to_disk /\ hfLast.error = NoneVal) =>
        hfLast.ds = FromScratch(hfLast.config)

====
